---- MODULE Spec2Model ----
(***************************************************************************)
(* Model of the retrieval-augmented question answering pipeline:           *)
(*   src/Embedding.py  the ingestion batch job (normalise, chunk, embed,   *)
(*                     insert into the two SQLite tables)                  *)
(*   src/app.py        the query handler (embed the question, scan and     *)
(*                     score each table, build the context, generate)      *)
(* A text is a sequence of one-character strings, a token list a sequence  *)
(* of texts, an embedding a sequence of integers.                          *)
(***************************************************************************)
EXTENDS Integers, Sequences, FiniteSets, TLC

VARIABLES
    \* --- chunk_text applied to one drawn input (SpecChunk)
    ct_text, ct_size, ct_overlap, ct_out,
    \* --- find_best_match applied to one drawn table (SpecTopK)
    tk_q, tk_rows, tk_k, tk_out,
    \* --- the database file knowledge_base.db
    schema, store, seqno, tx,
    \* --- one run of Embedding.py main()
    ipc, runs, posts, files, chunks, metadata, embeddings, idx,
    dStatus, mStatus, base,
    \* --- one request handled by app.py answer_question
    qpc, question, q_emb, top_discourse, top_markdown, context, response, calls

chunkVars == <<ct_text, ct_size, ct_overlap, ct_out>>
topkVars == <<tk_q, tk_rows, tk_k, tk_out>>
dbVars == <<schema, store, seqno, tx>>
ingestVars == <<ipc, runs, posts, files, chunks, metadata, embeddings, idx, dStatus, mStatus, base>>
queryVars == <<qpc, question, q_emb, top_discourse, top_markdown, context, response, calls>>
vars == <<chunkVars, topkVars, dbVars, ingestVars, queryVars>>

-----------------------------------------------------------------------------
(* Bounds of the model *)

\* longest text drawn for chunk_text
MaxLen == 6
\* largest chunk_size / overlap drawn for chunk_text
MaxW == 3
\* most rows of a table drawn for find_best_match
MaxRecs == 3
\* largest top_k drawn for find_best_match
MaxK == 4
\* number of times main() of Embedding.py is run
MaxRuns == 2
\* the word-count configuration is modelled at 1/WordScale of its value
WordScale == 100

-----------------------------------------------------------------------------
(* Python primitives *)

\* the two tables of knowledge_base.db
Tables == {"discourse_chunks", "markdown_chunks"}

EmptyTables == [t \in Tables |-> <<>>]

Min(a, b) == IF a < b THEN a ELSE b

\* the characters matched by \s and dropped by str.split()
Whitespace == {" ", "\n", "\t"}

\* str.split(): the maximal runs of non-whitespace characters, in order
RECURSIVE SplitFrom(_, _, _, _)
SplitFrom(text, i, cur, acc) ==
    IF i > Len(text)
    THEN (IF cur = <<>> THEN acc ELSE Append(acc, cur))
    ELSE IF text[i] \in Whitespace
         THEN SplitFrom(text, i + 1, <<>>, IF cur = <<>> THEN acc ELSE Append(acc, cur))
         ELSE SplitFrom(text, i + 1, Append(cur, text[i]), acc)

Split(text) == SplitFrom(text, 1, <<>>, <<>>)

\* sep.join(parts)
RECURSIVE Join(_, _)
Join(sep, parts) ==
    IF parts = <<>> THEN <<>>
    ELSE IF Len(parts) = 1 THEN parts[1]
    ELSE parts[1] \o sep \o Join(sep, Tail(parts))

\* range(start, stop, step) for step # 0, as a sequence
RECURSIVE PyRange(_, _, _)
PyRange(start, stop, step) ==
    IF (step > 0 /\ start >= stop) \/ (step < 0 /\ start <= stop)
    THEN <<>>
    ELSE <<start>> \o PyRange(start + step, stop, step)

\* xs[i:j] for 0 <= i, 0 <= j (zero-based, clamped to the list)
Slice(xs, i, j) == SubSeq(xs, i + 1, Min(j, Len(xs)))

-----------------------------------------------------------------------------
(* Embedding.py: text cleaning and chunking *)

\* re.sub(r'\s+', ' ', text)
RECURSIVE SubWhitespace(_, _, _)
SubWhitespace(text, i, acc) ==
    IF i > Len(text) THEN acc
    ELSE IF text[i] \in Whitespace
         THEN (IF i > 1 /\ text[i - 1] \in Whitespace
               THEN SubWhitespace(text, i + 1, acc)
               ELSE SubWhitespace(text, i + 1, Append(acc, " ")))
         ELSE SubWhitespace(text, i + 1, Append(acc, text[i]))

\* str.strip()
RECURSIVE Strip(_)
Strip(text) ==
    IF text = <<>> THEN text
    ELSE IF Head(text) \in Whitespace THEN Strip(Tail(text))
    ELSE IF text[Len(text)] \in Whitespace THEN Strip(SubSeq(text, 1, Len(text) - 1))
    ELSE text

clean_text(text) == Strip(SubWhitespace(text, 1, <<>>))

\* the body of the for loop of chunk_text over the indices `starts`
RECURSIVE ChunkLoop(_, _, _, _)
ChunkLoop(words, starts, chunk_size, acc) ==
    IF starts = <<>> THEN acc
    ELSE LET i == Head(starts)
             chunk == Join(<<" ">>, Slice(words, i, i + chunk_size))
         IN  ChunkLoop(words, Tail(starts), chunk_size,
                       IF chunk # <<>> THEN Append(acc, chunk) ELSE acc)

\* the same function stepping by chunk_size, the overlap forgotten
chunk_text_no_overlap(text, chunk_size, overlap) ==
    LET words == Split(text)
    IN  [raised |-> FALSE,
         chunks |-> ChunkLoop(words, PyRange(0, Len(words), chunk_size), chunk_size, <<>>)]

\* chunk_text(text, chunk_size, overlap): range() raises ValueError on a
\* zero step and is empty on a negative one
chunk_text(text, chunk_size, overlap) ==
    LET words == Split(text)
        step == chunk_size - overlap
    IN  IF step = 0
        THEN [raised |-> TRUE, chunks |-> <<>>]
        ELSE [raised |-> FALSE,
              chunks |-> ChunkLoop(words, PyRange(0, Len(words), step), chunk_size, <<>>)]

-----------------------------------------------------------------------------
(* The embedding model and the stored form of an embedding *)

\* the values a component of a model embedding takes
Component == -1 .. 1

\* the embeddings of the model: vectors of dimension 2
Vec == [1 .. 2 -> Component]

\* model.encode / embedder.encode on one text: a fixed function of the text
\* (the same model on both sides)
CountOf(text, ch) == Cardinality({i \in 1 .. Len(text) : text[i] = ch})

Encode(text) ==
    <<(CountOf(text, "a") % 3) - 1, (Len(Split(text)) % 3) - 1>>

\* embed_chunks(chunks): one vector per chunk, in order
embed_chunks(cs) == [i \in 1 .. Len(cs) |-> Encode(cs[i])]

\* the text of one number in json.dumps / read back by json.loads
NumRepr(n) == CASE n = -1 -> "-1" [] n = 0 -> "0" [] n = 1 -> "1"

ParseNum(s) == CASE s = "-1" -> -1 [] s = "0" -> 0 [] s = "1" -> 1

\* json.dumps(embeddings[i].tolist()).encode(): "[x, y]" as a token list
RECURSIVE DumpItems(_)
DumpItems(v) ==
    IF v = <<>> THEN <<>>
    ELSE IF Len(v) = 1 THEN <<NumRepr(v[1])>>
    ELSE <<NumRepr(v[1]), ",", " ">> \o DumpItems(Tail(v))

DumpEmbedding(v) == <<"[">> \o DumpItems(v) \o <<"]">>

\* np.array(json.loads(emb_blob.decode())): the numbers between the brackets
RECURSIVE LoadItems(_, _, _)
LoadItems(blob, i, acc) ==
    IF i > Len(blob) \/ blob[i] = "]" THEN acc
    ELSE IF blob[i] \in {"[", ",", " "} THEN LoadItems(blob, i + 1, acc)
    ELSE LoadItems(blob, i + 1, Append(acc, ParseNum(blob[i])))

LoadEmbedding(blob) == LoadItems(blob, 1, <<>>)

-----------------------------------------------------------------------------
(* app.py: scan and score *)

\* load_chunks on the rows of one table: (id, content, emb) per row
load_chunks(rows) ==
    [i \in 1 .. Len(rows) |->
        [id |-> rows[i].id, content |-> rows[i].content,
         emb |-> LoadEmbedding(rows[i].embedding)]]

Dot(a, b) == a[1] * b[1] + a[2] * b[2]

\* sklearn normalises each vector by its norm, and by 1 when the norm is 0
NormSq(a) == IF Dot(a, a) = 0 THEN 1 ELSE Dot(a, a)

Sign(x) == IF x > 0 THEN 1 ELSE IF x < 0 THEN -1 ELSE 0

\* cosine_similarity([q], [e])[0][0], kept exact as the fraction
\* sign(q.e) * (q.e)^2 / (|q|^2 |e|^2), which orders as the cosine does
Cosine(q, e) ==
    [num |-> Sign(Dot(q, e)) * Dot(q, e) * Dot(q, e), den |-> NormSq(q) * NormSq(e)]

ScoreLess(x, y) == x.num * y.den < y.num * x.den

ScoreEq(x, y) == x.num * y.den = y.num * x.den

\* sorted(scored, key=lambda x: x[2], reverse=True): stable, so an element goes
\* after every element already placed whose score is not smaller
RECURSIVE InsertDesc(_, _)
InsertDesc(sorted, x) ==
    IF sorted = <<>> THEN <<x>>
    ELSE IF ScoreLess(Head(sorted).score, x.score) THEN <<x>> \o sorted
    ELSE <<Head(sorted)>> \o InsertDesc(Tail(sorted), x)

RECURSIVE SortedDesc(_, _)
SortedDesc(scored, acc) ==
    IF scored = <<>> THEN acc
    ELSE SortedDesc(Tail(scored), InsertDesc(acc, Head(scored)))

\* sorted(scored)[::-1]: descending, but equal scores in reverse scan order
RECURSIVE InsertDescFirst(_, _)
InsertDescFirst(sorted, x) ==
    IF sorted = <<>> THEN <<x>>
    ELSE IF ScoreLess(x.score, Head(sorted).score)
         THEN <<Head(sorted)>> \o InsertDescFirst(Tail(sorted), x)
         ELSE <<x>> \o sorted

RECURSIVE SortedDescUnstable(_, _)
SortedDescUnstable(scored, acc) ==
    IF scored = <<>> THEN acc
    ELSE SortedDescUnstable(Tail(scored), InsertDescFirst(acc, Head(scored)))

ScoreAll(qv, loaded) ==
    [i \in 1 .. Len(loaded) |->
        [id |-> loaded[i].id, content |-> loaded[i].content,
         score |-> Cosine(qv, loaded[i].emb)]]

find_best_match_unstable(qv, rows, top_k) ==
    Slice(SortedDescUnstable(ScoreAll(qv, load_chunks(rows)), <<>>), 0, top_k)

\* find_best_match after the question is embedded: score every row of the
\* table, sort descending, keep the first top_k
find_best_match(qv, rows, top_k) ==
    Slice(SortedDesc(ScoreAll(qv, load_chunks(rows)), <<>>), 0, top_k)

-----------------------------------------------------------------------------
(* Embedding.py: configuration and the two corpus loops *)

\* CHUNK_SIZE = 1000 and CHUNK_OVERLAP = 200 words, at 1/WordScale
CHUNK_SIZE == 1000 \div WordScale

CHUNK_OVERLAP == 200 \div WordScale

\* the shortest cleaned content that is chunked: len(content) < 30 is skipped
MIN_CONTENT_LEN == 30

\* the for loop of process_discourse: the chunks of every post whose cleaned
\* content is long enough, and for each chunk the post's post_id and url
\* the same loop with the length test on the raw content
RECURSIVE DiscourseLoopRawLen(_, _, _)
DiscourseLoopRawLen(docs, cs, md) ==
    IF docs = <<>> THEN [chunks |-> cs, metadata |-> md]
    ELSE LET post == Head(docs)
             content == clean_text(post.content)
             post_chunks == chunk_text(content, CHUNK_SIZE, CHUNK_OVERLAP).chunks
         IN  IF Len(post.content) < MIN_CONTENT_LEN
             THEN DiscourseLoopRawLen(Tail(docs), cs, md)
             ELSE DiscourseLoopRawLen(Tail(docs), cs \o post_chunks,
                      md \o [j \in 1 .. Len(post_chunks) |->
                                [post_id |-> post.post_id, url |-> post.url]])

RECURSIVE DiscourseLoop(_, _, _)
DiscourseLoop(docs, cs, md) ==
    IF docs = <<>> THEN [chunks |-> cs, metadata |-> md]
    ELSE LET post == Head(docs)
             content == clean_text(post.content)
             post_chunks == chunk_text(content, CHUNK_SIZE, CHUNK_OVERLAP).chunks
         IN  IF Len(content) < MIN_CONTENT_LEN
             THEN DiscourseLoop(Tail(docs), cs, md)
             ELSE DiscourseLoop(Tail(docs), cs \o post_chunks,
                      md \o [j \in 1 .. Len(post_chunks) |->
                                [post_id |-> post.post_id, url |-> post.url]])

\* f.endswith(".md") on a file name <<stem, extension>>
EndsWithMd(name) == name[2] = ".md"

\* files = [f for f in os.listdir(MARKDOWN_DIR) if f.endswith(".md")]
RECURSIVE MdFiles(_)
MdFiles(listing) ==
    IF listing = <<>> THEN <<>>
    ELSE IF EndsWithMd(Head(listing).name)
         THEN <<Head(listing)>> \o MdFiles(Tail(listing))
         ELSE MdFiles(Tail(listing))

\* the for loop of process_markdown: the chunks of every file whose cleaned
\* content is long enough, each with the file name and its index in the file
RECURSIVE MarkdownLoop(_, _, _)
MarkdownLoop(fs, cs, md) ==
    IF fs = <<>> THEN [chunks |-> cs, metadata |-> md]
    ELSE LET file == Head(fs)
             content == clean_text(file.content)
             file_chunks == chunk_text(content, CHUNK_SIZE, CHUNK_OVERLAP).chunks
         IN  IF Len(content) < MIN_CONTENT_LEN
             THEN MarkdownLoop(Tail(fs), cs, md)
             ELSE MarkdownLoop(Tail(fs), cs \o file_chunks,
                      md \o [j \in 1 .. Len(file_chunks) |->
                                [file_name |-> file.name, chunk_index |-> j - 1]])

-----------------------------------------------------------------------------
(* The SQLite database: committed rows, the AUTOINCREMENT counters, and the *)
(* rows inserted by the open transaction of the ingestion connection        *)

\* CREATE TABLE IF NOT EXISTS for both tables: an existing table is kept
create_tables_drop(exists, st) == EmptyTables

create_tables(exists, st) == IF exists THEN st ELSE EmptyTables

\* the id AUTOINCREMENT gives the next row of table t
NextRowId(t) == seqno[t] + Len(tx[t]) + 1

\* conn.commit(): the inserted rows become durable
conn_commit(st, pending) == [t \in Tables |-> st[t] \o pending[t]]

\* an exception leaves main() before conn.commit(): the connection is dropped
\* and the rows of the open transaction are rolled back
abort_commits(st, pending) == conn_commit(st, pending)

abort_run(st, pending) == st

-----------------------------------------------------------------------------
(* Initial values of each group of variables when its code is not running *)

ChunkIdle ==
    /\ ct_text = <<>> /\ ct_size = 1 /\ ct_overlap = 0
    /\ ct_out = [called |-> FALSE, raised |-> FALSE, chunks |-> <<>>]

TopKIdle ==
    /\ tk_q = <<0, 0>> /\ tk_rows = <<>> /\ tk_k = 0
    /\ tk_out = [called |-> FALSE, rows |-> <<>>]

SystemInit ==
    /\ schema = FALSE
    /\ store = EmptyTables
    /\ seqno = [t \in Tables |-> 0]
    /\ tx = EmptyTables
    /\ ipc = "idle" /\ runs = 0
    /\ posts = [present |-> FALSE, docs |-> <<>>]
    /\ files = [present |-> FALSE, docs |-> <<>>]
    /\ chunks = <<>> /\ metadata = <<>> /\ embeddings = <<>> /\ idx = 0
    /\ dStatus = "pending" /\ mStatus = "pending"
    /\ base = EmptyTables
    /\ qpc = "idle" /\ question = <<>> /\ q_emb = <<0, 0>>
    /\ top_discourse = <<>> /\ top_markdown = <<>> /\ context = <<>>
    /\ response = [answer |-> <<>>, links |-> <<>>]
    /\ calls = <<>>

-----------------------------------------------------------------------------
(* The corpora an ingestion run can find on disk *)

\* n one-letter words separated by sep
WordsText(n, sep) == Join(sep, [i \in 1 .. n |-> <<IF i % 2 = 1 THEN "a" ELSE "b">>])

\* 16 words, 31 characters: chunked into overlapping windows
LongText == WordsText(16, <<" ">>)

\* 15 words, 29 characters: below the minimum length
ShortText == WordsText(15, <<" ">>)

\* 14 words, 42 characters raw and 27 cleaned: below the minimum once cleaned
PaddedText == <<"\n">> \o WordsText(14, <<" ", "\n">>) \o <<"\t">>

\* one word of 40 characters: a single chunk
OneWordText == [i \in 1 .. 40 |-> "A"]

Post(id, url, content) == [post_id |-> id, url |-> url, content |-> content]

File(stem, ext, content) == [name |-> <<stem, ext>>, content |-> content]

\* discourse_posts.json: absent, or a list of posts
DiscourseInputs ==
    { [present |-> FALSE, docs |-> <<>>],
      [present |-> TRUE, docs |-> <<>>],
      [present |-> TRUE, docs |-> <<Post("1", "http://x", OneWordText)>>],
      [present |-> TRUE, docs |-> <<Post("2", "http://y", PaddedText),
                                    Post("3", "http://z", LongText),
                                    Post("4", "http://w", ShortText)>>] }

\* markdown_files: absent, or a directory listing
MarkdownInputs ==
    { [present |-> FALSE, docs |-> <<>>],
      [present |-> TRUE, docs |-> <<File("notes", ".txt", LongText)>>],
      [present |-> TRUE, docs |-> <<File("b", ".md", ShortText),
                                    File("a", ".md", LongText),
                                    File("c", ".txt", OneWordText),
                                    File("d", ".md", OneWordText)>>] }

\* the questions a client asks
Questions == { <<"a">>, <<"b", " ", "b">> }

\* top_k=2, the default of find_best_match used by answer_question
TOP_K == 2

-----------------------------------------------------------------------------
(* Embedding.py main(): one batch run, a step per statement that can fail *)

RunOver == ipc \in {"idle", "done", "raised"}

\* python Embedding.py: create_connection()
MainStart ==
    /\ RunOver /\ runs < MaxRuns
    /\ runs' = runs + 1
    /\ \E d \in DiscourseInputs : posts' = d
    /\ \E m \in MarkdownInputs : files' = m
    /\ ipc' = "create"
    /\ chunks' = <<>> /\ metadata' = <<>> /\ embeddings' = <<>> /\ idx' = 0
    /\ dStatus' = "pending" /\ mStatus' = "pending"
    /\ base' = store
    /\ UNCHANGED <<chunkVars, topkVars, dbVars, queryVars>>

\* create_tables(conn)
CreateTables ==
    /\ ipc = "create"
    /\ store' = create_tables(schema, store)
    /\ seqno' = IF schema THEN seqno ELSE [t \in Tables |-> 0]
    /\ schema' = TRUE
    /\ ipc' = "discourse"
    /\ UNCHANGED <<tx, runs, posts, files, chunks, metadata, embeddings, idx,
                   dStatus, mStatus, base, chunkVars, topkVars, queryVars>>

\* process_discourse: the file is missing, print and return
DiscourseMissing ==
    /\ ipc = "discourse" /\ ~posts.present
    /\ dStatus' = "skipped"
    /\ ipc' = "markdown"
    /\ UNCHANGED <<runs, posts, files, chunks, metadata, embeddings, idx, mStatus, base,
                   chunkVars, topkVars, dbVars, queryVars>>

\* process_discourse: json.load and the loop over the posts
DiscourseLoad ==
    /\ ipc = "discourse" /\ posts.present
    /\ LET r == DiscourseLoop(posts.docs, <<>>, <<>>)
       IN  chunks' = r.chunks /\ metadata' = r.metadata
    /\ embeddings' = <<>> /\ idx' = 0
    /\ ipc' = "d_embed"
    /\ UNCHANGED <<runs, posts, files, dStatus, mStatus, base,
                   chunkVars, topkVars, dbVars, queryVars>>

\* embeddings = embed_chunks(chunks)
EmbedOk(at, next) ==
    /\ ipc = at
    /\ embeddings' = embed_chunks(chunks)
    /\ idx' = 0
    /\ ipc' = next
    /\ UNCHANGED <<runs, posts, files, chunks, metadata, dStatus, mStatus, base,
                   chunkVars, topkVars, dbVars, queryVars>>

\* an exception in process_discourse or process_markdown: nothing in main()
\* catches it, the run ends and the open transaction is rolled back
Raise(at, table) ==
    /\ ipc \in at
    /\ store' = abort_run(store, tx)
    \* sqlite_sequence belongs to the same transaction as the rows
    /\ seqno' = [t \in Tables |-> seqno[t] + Len(store'[t]) - Len(store[t])]
    /\ tx' = EmptyTables
    /\ dStatus' = IF table = "discourse_chunks" THEN "failed" ELSE dStatus
    /\ mStatus' = IF table = "markdown_chunks" THEN "failed" ELSE mStatus
    /\ ipc' = "raised"
    /\ UNCHANGED <<schema, runs, posts, files, chunks, metadata, embeddings, idx, base,
                   chunkVars, topkVars, queryVars>>

DiscourseEmbed == EmbedOk("d_embed", "d_insert")

\* the embedding model raises, or an INSERT raises
DiscourseRaise ==
    \/ Raise({"d_embed"}, "discourse_chunks")
    \/ (idx < Len(chunks) /\ Raise({"d_insert"}, "discourse_chunks"))

\* one pass of the insert loop of process_discourse
DiscourseInsert ==
    /\ ipc = "d_insert" /\ idx < Len(chunks)
    /\ LET i == idx + 1
           row == [id |-> NextRowId("discourse_chunks"),
                   post_id |-> metadata[i].post_id, url |-> metadata[i].url,
                   content |-> chunks[i],
                   embedding |-> DumpEmbedding(embeddings[i])]
       IN  tx' = [tx EXCEPT !["discourse_chunks"] = Append(@, row)]
    /\ idx' = idx + 1
    /\ UNCHANGED <<schema, store, seqno, ipc, runs, posts, files, chunks, metadata,
                   embeddings, dStatus, mStatus, base, chunkVars, topkVars, queryVars>>

\* conn.commit() after the loop
Commit(at, next) ==
    /\ ipc = at /\ idx = Len(chunks)
    /\ store' = conn_commit(store, tx)
    /\ seqno' = [t \in Tables |-> seqno[t] + Len(tx[t])]
    /\ tx' = EmptyTables
    /\ ipc' = next
    /\ UNCHANGED <<schema, runs, posts, files, chunks, metadata, embeddings, idx, base,
                   chunkVars, topkVars, queryVars>>

DiscourseCommit ==
    /\ Commit("d_insert", "markdown")
    /\ dStatus' = "ok" /\ UNCHANGED mStatus

\* process_markdown: the directory is missing or holds no .md file
MarkdownMissing ==
    /\ ipc = "markdown"
    /\ (~files.present \/ MdFiles(files.docs) = <<>>)
    /\ mStatus' = "skipped"
    /\ ipc' = "close"
    /\ UNCHANGED <<runs, posts, files, chunks, metadata, embeddings, idx, dStatus, base,
                   chunkVars, topkVars, dbVars, queryVars>>

\* process_markdown: the loop over the .md files
MarkdownLoad ==
    /\ ipc = "markdown" /\ files.present /\ MdFiles(files.docs) # <<>>
    /\ LET r == MarkdownLoop(MdFiles(files.docs), <<>>, <<>>)
       IN  chunks' = r.chunks /\ metadata' = r.metadata
    /\ embeddings' = <<>> /\ idx' = 0
    /\ ipc' = "m_embed"
    /\ UNCHANGED <<runs, posts, files, dStatus, mStatus, base,
                   chunkVars, topkVars, dbVars, queryVars>>

MarkdownEmbed == EmbedOk("m_embed", "m_insert")

MarkdownRaise ==
    \/ Raise({"m_embed"}, "markdown_chunks")
    \/ (idx < Len(chunks) /\ Raise({"m_insert"}, "markdown_chunks"))

\* one pass of the insert loop of process_markdown
MarkdownInsert ==
    /\ ipc = "m_insert" /\ idx < Len(chunks)
    /\ LET i == idx + 1
           row == [id |-> NextRowId("markdown_chunks"),
                   file_name |-> metadata[i].file_name,
                   chunk_index |-> metadata[i].chunk_index,
                   content |-> chunks[i],
                   embedding |-> DumpEmbedding(embeddings[i])]
       IN  tx' = [tx EXCEPT !["markdown_chunks"] = Append(@, row)]
    /\ idx' = idx + 1
    /\ UNCHANGED <<schema, store, seqno, ipc, runs, posts, files, chunks, metadata,
                   embeddings, dStatus, mStatus, base, chunkVars, topkVars, queryVars>>

MarkdownCommit ==
    /\ Commit("m_insert", "close")
    /\ mStatus' = "ok" /\ UNCHANGED dStatus

\* conn.close() and the final print
MainClose ==
    /\ ipc = "close"
    /\ ipc' = "done"
    /\ UNCHANGED <<runs, posts, files, chunks, metadata, embeddings, idx, dStatus, mStatus,
                   base, chunkVars, topkVars, dbVars, queryVars>>

-----------------------------------------------------------------------------
(* app.py answer_question: one request, a step per call that can fail *)

QueryOver == qpc \in {"idle", "done", "error"}

\* POST /api/ with a question
Receive ==
    /\ QueryOver
    /\ \E q \in Questions : question' = q
    /\ qpc' = "d_embed"
    /\ q_emb' = <<0, 0>>
    /\ top_discourse' = <<>> /\ top_markdown' = <<>> /\ context' = <<>>
    /\ response' = [answer |-> <<>>, links |-> <<>>]
    /\ calls' = <<>>
    /\ UNCHANGED <<chunkVars, topkVars, dbVars, ingestVars>>

\* q_emb = get_embedding(question), the first statement of find_best_match
GetEmbedding(at, next) ==
    /\ qpc = at
    /\ q_emb' = Encode(question)
    /\ calls' = Append(calls, "embed")
    /\ qpc' = next
    /\ UNCHANGED <<question, top_discourse, top_markdown, context, response,
                   chunkVars, topkVars, dbVars, ingestVars>>

\* the rest of find_best_match on one table: load_chunks reads the committed
\* rows, then score, sort and cut
ScanDiscourse ==
    /\ qpc = "d_scan" /\ schema
    /\ top_discourse' = find_best_match(q_emb, store["discourse_chunks"], TOP_K)
    /\ calls' = Append(calls, "scan_discourse")
    /\ qpc' = "m_embed"
    /\ UNCHANGED <<question, q_emb, top_markdown, context, response,
                   chunkVars, topkVars, dbVars, ingestVars>>

ScanMarkdown ==
    /\ qpc = "m_scan" /\ schema
    /\ top_markdown' = find_best_match(q_emb, store["markdown_chunks"], TOP_K)
    /\ calls' = Append(calls, "scan_markdown")
    /\ qpc' = "context"
    /\ UNCHANGED <<question, q_emb, top_discourse, context, response,
                   chunkVars, topkVars, dbVars, ingestVars>>

DiscourseEmbedQuestion == GetEmbedding("d_embed", "d_scan")

MarkdownEmbedQuestion == GetEmbedding("m_embed", "m_scan")

Contents(top) == [i \in 1 .. Len(top) |-> top[i].content]

\* "\n".join([c for _, c, _ in top_markdown + top_discourse])
build_context_swapped(td, tm) == Join(<<"\n">>, Contents(tm \o td))

\* context = "\n".join([c for _, c, _ in top_discourse + top_markdown])
build_context(td, tm) == Join(<<"\n">>, Contents(td \o tm))

BuildContext ==
    /\ qpc = "context"
    /\ context' = build_context(top_discourse, top_markdown)
    /\ qpc' = "generate"
    /\ UNCHANGED <<question, q_emb, top_discourse, top_markdown, response, calls,
                   chunkVars, topkVars, dbVars, ingestVars>>

\* generate_answer(question, context) and the returned dictionary; the text
\* the language model produces is not modelled beyond being some text
GenerateAnswer ==
    /\ qpc = "generate"
    /\ calls' = Append(calls, "generate")
    /\ response' = [answer |-> <<"t", "e", "x", "t">>, links |-> <<>>]
    /\ qpc' = "done"
    /\ UNCHANGED <<question, q_emb, top_discourse, top_markdown, context,
                   chunkVars, topkVars, dbVars, ingestVars>>

\* the request fails: the embedding model or the language model raises, or
\* the table does not exist yet (sqlite3.OperationalError)
RequestFails ==
    /\ \/ qpc \in {"d_embed", "m_embed", "generate"}
       \/ (qpc \in {"d_scan", "m_scan"} /\ ~schema)
    /\ qpc' = "error"
    /\ UNCHANGED <<question, q_emb, top_discourse, top_markdown, context, response, calls,
                   chunkVars, topkVars, dbVars, ingestVars>>

-----------------------------------------------------------------------------
(* Spec: ingestion runs and query requests against one database *)

Init == ChunkIdle /\ TopKIdle /\ SystemInit

Next ==
    \/ MainStart
    \/ CreateTables
    \/ DiscourseMissing
    \/ DiscourseLoad
    \/ DiscourseEmbed
    \/ DiscourseInsert
    \/ DiscourseCommit
    \/ DiscourseRaise
    \/ MarkdownMissing
    \/ MarkdownLoad
    \/ MarkdownEmbed
    \/ MarkdownInsert
    \/ MarkdownCommit
    \/ MarkdownRaise
    \/ MainClose
    \/ Receive
    \/ DiscourseEmbedQuestion
    \/ ScanDiscourse
    \/ MarkdownEmbedQuestion
    \/ ScanMarkdown
    \/ BuildContext
    \/ GenerateAnswer
    \/ RequestFails

Spec == Init /\ [][Next]_vars

-----------------------------------------------------------------------------
(* SpecChunk: chunk_text called once on each text, chunk_size and overlap *)

Alphabet == {"a", "b", " ", "\n"}

Texts == UNION {[1 .. n -> Alphabet] : n \in 0 .. MaxLen}

InitChunk ==
    /\ ct_text \in Texts
    /\ ct_size \in 1 .. MaxW
    /\ ct_overlap \in 0 .. MaxW + 1
    /\ ct_out = [called |-> FALSE, raised |-> FALSE, chunks |-> <<>>]
    /\ TopKIdle /\ SystemInit

CallChunkText ==
    /\ ~ct_out.called
    /\ ct_out' = [called |-> TRUE] @@ chunk_text(ct_text, ct_size, ct_overlap)
    /\ UNCHANGED <<ct_text, ct_size, ct_overlap, topkVars, dbVars, ingestVars, queryVars>>

NextChunk == CallChunkText

SpecChunk == InitChunk /\ [][NextChunk]_vars

-----------------------------------------------------------------------------
(* SpecTopK: find_best_match called once on each query vector, table, top_k *)

\* the rows of a drawn table: ids 1..n in insertion order, the content naming
\* the row, the embedding stored as ingestion stores it
RowOf(i, v) == [id |-> i, content |-> [j \in 1 .. i |-> "c"], embedding |-> DumpEmbedding(v)]

\* the embeddings stored in a drawn table: the zero vector, and vectors that
\* score above, below and equal to one another against the query vectors
RowVecs == {<<0, 0>>, <<1, 0>>, <<1, 1>>, <<1, -1>>, <<-1, 0>>}

DrawnTables ==
    UNION {{[i \in 1 .. n |-> RowOf(i, vs[i])] : vs \in [1 .. n -> RowVecs]} : n \in 0 .. MaxRecs}

InitTopK ==
    /\ tk_q \in Vec
    /\ tk_rows \in DrawnTables
    /\ tk_k \in 0 .. MaxK
    /\ tk_out = [called |-> FALSE, rows |-> <<>>]
    /\ ChunkIdle /\ SystemInit

CallFindBestMatch ==
    /\ ~tk_out.called
    /\ tk_out' = [called |-> TRUE, rows |-> find_best_match(tk_q, tk_rows, tk_k)]
    /\ UNCHANGED <<tk_q, tk_rows, tk_k, chunkVars, dbVars, ingestVars, queryVars>>

NextTopK == CallFindBestMatch

SpecTopK == InitTopK /\ [][NextTopK]_vars

-----------------------------------------------------------------------------
(* Properties of chunk_text (SpecChunk) *)

ct_words == Split(ct_text)

ct_valid == ct_overlap < ct_size

\* C1: a text with fewer tokens than window_size (0 <= overlap < window_size)
\* yields exactly one chunk, the tokens joined by single spaces. Stated for
\* the texts that hold a token; the text without one yields no chunk at all.
C1_ShortTextSingleChunk ==
    (ct_out.called /\ ct_valid /\ 0 < Len(ct_words) /\ Len(ct_words) < ct_size)
        => (~ct_out.raised /\ ct_out.chunks = <<Join(<<" ">>, ct_words)>>)

\* C2: with overlap >= window_size the chunker fails with an error instead of
\* returning a chunk sequence.
C2_InvalidConfigRaises ==
    (ct_out.called /\ ct_overlap >= ct_size) => ct_out.raised

Max(a, b) == IF a > b THEN a ELSE b

\* the tokens of chunk number i (from 1) that no earlier chunk holds, when
\* chunk j holds the tokens from index (j-1)*stride
FreshTokens(cs, i, stride) ==
    LET toks == Split(cs[i])
        covered == IF i = 1 THEN 0
                   ELSE (i - 2) * stride + Len(Split(cs[i - 1]))
        skip == Max(0, covered - (i - 1) * stride)
    IN  SubSeq(toks, skip + 1, Len(toks))

RECURSIVE Reconstruct(_, _, _)
Reconstruct(cs, i, stride) ==
    IF i > Len(cs) THEN <<>>
    ELSE FreshTokens(cs, i, stride) \o Reconstruct(cs, i + 1, stride)

\* C3: for window_size > overlap >= 0 chunk i (from 0) is the window of the
\* tokens starting at index i * (window_size - overlap), and the first chunk
\* followed by the not yet covered tokens of each later chunk is the original
\* token sequence.
C3_ChunksReconstructTokens ==
    (ct_out.called /\ ct_valid) =>
        LET stride == ct_size - ct_overlap
            cs == ct_out.chunks
        IN  /\ ~ct_out.raised
            /\ \A i \in 1 .. Len(cs) :
                  /\ (i - 1) * stride < Len(ct_words)
                  /\ Split(cs[i]) = SubSeq(ct_words, (i - 1) * stride + 1,
                                           Min((i - 1) * stride + ct_size, Len(ct_words)))
                  /\ cs[i] = Join(<<" ">>, Split(cs[i]))
            /\ Reconstruct(cs, 1, stride) = ct_words

\* a text of five tokens cut into three overlapping windows
C3_Witness ==
    /\ ct_out.called /\ ct_valid /\ ct_overlap > 0
    /\ Len(ct_out.chunks) >= 3
    /\ ct_text # Join(<<" ">>, ct_words)

-----------------------------------------------------------------------------
(* Properties of find_best_match (SpecTopK) *)

tk_scored == ScoreAll(tk_q, load_chunks(tk_rows))

\* row p' is ranked before row p: a larger score, or the same score and an
\* earlier place in the scan
RankedBefore(scored, p1, p) ==
    \/ ScoreLess(scored[p].score, scored[p1].score)
    \/ (ScoreEq(scored[p].score, scored[p1].score) /\ p1 < p)

RankOf(scored, p) == Cardinality({p1 \in 1 .. Len(scored) : RankedBefore(scored, p1, p)}) + 1

\* C4: top_k returns exactly the first min(k, N) rows in descending score
\* order, equal scores in insertion order; never more than k nor than N rows.
C4_TopKStableDescending ==
    tk_out.called =>
        LET res == tk_out.rows
            n == Len(tk_rows)
        IN  /\ Len(res) = Min(tk_k, n)
            /\ Len(res) <= tk_k /\ Len(res) <= n
            /\ \A j \in 1 .. Len(res) :
                  \E p \in 1 .. n :
                     /\ RankOf(tk_scored, p) = j
                     /\ res[j] = tk_scored[p]
                     /\ res[j].id = tk_rows[p].id
                     /\ res[j].content = tk_rows[p].content

\* a table of three rows where the best score is shared by two rows and the
\* result is cut to two
C4_Witness ==
    /\ tk_out.called /\ tk_k = 2 /\ Len(tk_rows) = 3
    /\ ScoreEq(tk_scored[2].score, tk_scored[3].score)
    /\ ScoreLess(tk_scored[1].score, tk_scored[2].score)
    /\ tk_out.rows[1].id = 2 /\ tk_out.rows[2].id = 3

-----------------------------------------------------------------------------
(* Properties of ingestion (Spec) *)

\* the rows table t gained since the current run started
NewRows(t) == SubSeq(store[t], Len(base[t]) + 1, Len(store[t]))

\* the chunks one document contributes: none when its cleaned content is
\* short, else the chunks of its cleaned content
DocChunks(content) ==
    LET cleaned == clean_text(content)
    IN  IF Len(cleaned) >= MIN_CONTENT_LEN
        THEN chunk_text(cleaned, CHUNK_SIZE, CHUNK_OVERLAP).chunks
        ELSE <<>>

RECURSIVE ExpectedDiscourse(_)
ExpectedDiscourse(docs) ==
    IF docs = <<>> THEN <<>>
    ELSE LET post == Head(docs)
             cs == DocChunks(post.content)
         IN  [j \in 1 .. Len(cs) |-> [meta |-> <<post.post_id, post.url>>, content |-> cs[j]]]
             \o ExpectedDiscourse(Tail(docs))

RECURSIVE ExpectedMarkdown(_)
ExpectedMarkdown(listing) ==
    IF listing = <<>> THEN <<>>
    ELSE LET file == Head(listing)
             cs == IF EndsWithMd(file.name) THEN DocChunks(file.content) ELSE <<>>
         IN  [j \in 1 .. Len(cs) |-> [meta |-> <<file.name, j - 1>>, content |-> cs[j]]]
             \o ExpectedMarkdown(Tail(listing))

StoredDiscourse ==
    LET rows == NewRows("discourse_chunks")
    IN  [i \in 1 .. Len(rows) |->
            [meta |-> <<rows[i].post_id, rows[i].url>>, content |-> rows[i].content]]

StoredMarkdown ==
    LET rows == NewRows("markdown_chunks")
    IN  [i \in 1 .. Len(rows) |->
            [meta |-> <<rows[i].file_name, rows[i].chunk_index>>, content |-> rows[i].content]]

\* C5: a failure while processing one corpus does not keep the other corpus
\* from being processed in the same run: the chunks the other corpus holds
\* are stored.
C5_ErrorsLocalizedToCorpus ==
    (RunOver /\ runs > 0) =>
        /\ (dStatus = "failed" /\ ExpectedMarkdown(files.docs) # <<>>)
              => (mStatus = "ok" /\ StoredMarkdown = ExpectedMarkdown(files.docs))
        /\ (mStatus = "failed" /\ ExpectedDiscourse(posts.docs) # <<>>)
              => (dStatus = "ok" /\ StoredDiscourse = ExpectedDiscourse(posts.docs))

\* C8: after a corpus is ingested to completion the appended records are exactly the chunks
\* of its documents whose cleaned content has at least 30 characters, each
\* with its own document's metadata; shorter documents contribute nothing.
C8_StoredRecordsAreEligibleChunks ==
    /\ dStatus = "ok" => StoredDiscourse = ExpectedDiscourse(posts.docs)
    /\ mStatus = "ok" => StoredMarkdown = ExpectedMarkdown(files.docs)
    /\ \A t \in Tables : \A i \in 1 .. Len(store[t]) :
          Len(store[t][i].content) > 0

\* a run that stored a two-chunk post and skipped the padded and the short
\* one, and stored the chunks of two markdown files of four listed
C8_Witness ==
    /\ ipc = "done" /\ dStatus = "ok" /\ mStatus = "ok"
    /\ Len(posts.docs) = 3 /\ Len(StoredDiscourse) = 2
    /\ StoredDiscourse[2].meta = <<"3", "http://z">>
    /\ Len(files.docs) = 4 /\ Len(StoredMarkdown) = 3
    /\ StoredMarkdown[2].meta = <<(<<"a", ".md">>), 1>>
    /\ StoredMarkdown[3].meta = <<(<<"d", ".md">>), 0>>

\* the number of records the current run stores for table t when it succeeds
ExpectedCount(t) ==
    IF t = "discourse_chunks" THEN Len(ExpectedDiscourse(posts.docs))
    ELSE Len(ExpectedMarkdown(files.docs))

StatusOf(t) == IF t = "discourse_chunks" THEN dStatus ELSE mStatus

\* C10: per corpus, every chunk is embedded before the first insert and the
\* inserts are committed together: a failure leaves no record of that corpus
\* from this run, is raised out of the run, and keeps what the run committed
\* for the earlier corpus.
C10_CorpusAllOrNothing ==
    /\ \A t \in Tables :
          /\ IF StatusOf(t) = "ok"
             THEN Len(NewRows(t)) = ExpectedCount(t)
             ELSE store[t] = base[t]
          /\ tx[t] # <<>> => Len(embeddings) = Len(chunks)
    /\ (dStatus = "failed" \/ mStatus = "failed") => ipc = "raised"
    /\ (mStatus = "failed" /\ dStatus = "ok") => StoredDiscourse = ExpectedDiscourse(posts.docs)

\* the markdown corpus failed after two of its three inserts, the discourse
\* corpus of the same run is stored
C10_Witness ==
    /\ ipc = "raised" /\ mStatus = "failed" /\ dStatus = "ok"
    /\ idx = 2 /\ Len(chunks) = 3
    /\ Len(NewRows("discourse_chunks")) = 2
    /\ store["markdown_chunks"] = base["markdown_chunks"]

IsPrefix(a, b) == Len(a) <= Len(b) /\ SubSeq(b, 1, Len(a)) = a

IdsIncreasing ==
    \A t \in Tables : \A i \in 1 .. Len(store[t]) - 1 : store[t][i].id < store[t][i + 1].id

\* C9: the store is append-only: stored rows stay as they are, ids increase
\* in insertion order, creating the schema again changes nothing, and query
\* requests leave the tables unchanged.
C9_StoreAppendOnly ==
    /\ [] IdsIncreasing
    /\ [][ /\ \A t \in Tables : IsPrefix(store[t], store'[t])
           /\ (ipc = "create" /\ ipc' # "create" /\ schema) => (store' = store /\ seqno' = seqno)
           /\ (queryVars' # queryVars) => (dbVars' = dbVars)
         ]_vars

\* a second run re-created the schema over stored rows and appended more,
\* and a request was answered
C9_Witness ==
    /\ runs = 2 /\ ipc = "done" /\ qpc = "done"
    /\ \A t \in Tables : base[t] # <<>> /\ Len(store[t]) > Len(base[t])

-----------------------------------------------------------------------------
(* Properties of the query handler (Spec) *)

CountCalls(name) == Cardinality({i \in 1 .. Len(calls) : calls[i] = name})

IndexOfCall(name) == CHOOSE i \in 1 .. Len(calls) : calls[i] = name

\* C6: a handled request calls the embedding model exactly once, before any
\* retrieval.
C6_QuestionEmbeddedOnce ==
    qpc = "done" =>
        /\ CountCalls("embed") = 1
        /\ \A i \in 1 .. Len(calls) : calls[i] = "embed" => i = 1

RECURSIVE LenAll(_)
LenAll(cs) == IF cs = <<>> THEN 0 ELSE Len(Head(cs)) + LenAll(Tail(cs))

\* where piece i starts in the pieces cs laid out with one separator between
Offset(cs, i) == LenAll(SubSeq(cs, 1, i - 1)) + (i - 1)

DescendingRank(top) ==
    \A i \in 1 .. Len(top) - 1 : ~ScoreLess(top[i].score, top[i + 1].score)

\* C7: a handled request calls synthesize exactly once, after both
\* retrievals, on the newline-join of the discourse top-2 contents followed
\* by the markdown top-2 contents in rank order; the links list is empty.
C7_ContextAndSingleSynthesis ==
    qpc = "done" =>
        /\ CountCalls("generate") = 1
        /\ CountCalls("scan_discourse") = 1 /\ CountCalls("scan_markdown") = 1
        /\ IndexOfCall("scan_discourse") < IndexOfCall("scan_markdown")
        /\ IndexOfCall("scan_markdown") < IndexOfCall("generate")
        /\ Len(top_discourse) <= TOP_K /\ Len(top_markdown) <= TOP_K
        /\ DescendingRank(top_discourse) /\ DescendingRank(top_markdown)
        /\ LET cs == Contents(top_discourse) \o Contents(top_markdown)
           IN  /\ Len(context) = LenAll(cs) + Max(0, Len(cs) - 1)
               /\ \A i \in 1 .. Len(cs) : SubSeq(context, Offset(cs, i) + 1, Offset(cs, i) + Len(cs[i])) = cs[i]
               /\ \A i \in 1 .. Len(cs) - 1 : context[Offset(cs, i) + Len(cs[i]) + 1] = "\n"
        /\ (top_discourse = <<>> /\ top_markdown = <<>>) => context = <<>>
        /\ response.links = <<>>
\* a request answered from two chunks of each table, the discourse table
\* holding more rows than are kept
C7_Witness ==
    /\ qpc = "done"
    /\ Len(top_discourse) = 2 /\ Len(top_markdown) = 2
    /\ Len(store["discourse_chunks"]) > 2
    /\ top_discourse[1].id > top_discourse[2].id
    /\ context # <<>>

====
